---------------------------- MODULE Spec2Model ----------------------------
(* NebulaAudio (src/index.js): a wrapper of an HTMLAudioElement with a     *)
(* swing-fade volume change (setVolume, set src) and an indexed listener   *)
(* registry (on, off).                                                     *)
(*                                                                         *)
(* Numbers.  The volume of the element is a double in [0,1]; here it is a  *)
(* fixed-point integer with One standing for 1.0, and Math.cos is computed *)
(* in the same fixed point (Horner form of its Taylor series), so a result *)
(* that depends on the last bits of a double is outside this model.        *)
(*                                                                         *)
(* Scheduling.  JavaScript runs one task at a time: a call of the API, or  *)
(* one firing of one setInterval callback together with the promise        *)
(* reactions it triggers, is one atomic step.  Every fade that starts a    *)
(* timer here has the same interval (13 ms), and the platform runs timers  *)
(* of equal delay in the order they were set, a repeating timer being set  *)
(* again each time it has fired: the timers fire in turn, in the order     *)
(* kept in due, and the calls of the API come at any point in between.  A  *)
(* reaction of a promise that is resolved inside a call of the API runs    *)
(* after the calling code has finished and before any timer fires: it      *)
(* waits in mq.                                                            *)
EXTENDS Integers, Sequences, FiniteSets

\* ------------------------------------------------------------------ bounds
MaxCalls == 2        \* setVolume calls made by the user of the class
MaxErrors == 2       \* uncaught exceptions are counted modulo MaxErrors + 1
MaxSrc == 2          \* assignments to src
MaxRegOps == 4       \* calls of on and off
MaxHandle == 3       \* largest handlerIndex passed to off

\* --------------------------------------------------------------- constants
One == 10000                 \* the volume 1.0 (newVolume /= 100 maps 100 to it)
PiFP == 31416                \* Math.PI in units of 1/One
DefaultFadeMs == 1500        \* setVolume's default fadeMs, set src's fadeMs
DefaultIntervalMs == 13      \* setVolume's default intervalMs

NoWrite == 0 - 1             \* "this fade has not written the volume yet"
NoCont == 0                  \* a fade nobody chained a .then() callback to
NoUrl == ""                  \* new Audio(undefined).src
Urls == {"a.mp3", "b.mp3"}

Percents == {0 - 1, 0, 50, 100, 101}     \* newVolume arguments
FadeMsSet == {0, 5, 13, 39}              \* fadeMs arguments
IntervalMsSet == {0, 13}                 \* intervalMs arguments

Events == {"ended", "play"}
Handlers == {"h1", "h2"}
Null == "null"               \* eventHandlers[i] = null
Hole == "hole"               \* an index of the array that was never assigned
NoIndex == 0 - 1             \* undefined, where a number is expected

VARIABLES
    volume,          \* this._audio.volume
    paused,          \* this._audio.paused
    currentTime,     \* this._audio.currentTime: 0 at the start, 1 further on
    loop,            \* this._audio.loop
    audioSrc,        \* this._audio.src
    listeners,       \* the element's event listener list, per event type
    timers,          \* one record per setInterval started by setVolume
    due,             \* the timers that are set, in the order they will fire
    mq,              \* .then() callbacks of set src that wait to run (microtasks)
    uncaught,        \* exceptions thrown out of timer callbacks (a wrapping count)
    lastWriter,      \* the fade whose callback wrote the volume last; 0: a call did
    lastCall,        \* what the latest setVolume call did and returned
    nCalls,          \* setVolume calls made so far by the user
    assigned,        \* the src assignments made so far, in order
    eventHandlers,   \* this._eventHandlers
    lastOp,          \* the latest on/off call and what it returned
    handles,         \* per event, the handles on() has returned, in order
    nReg             \* on/off calls made so far

audio == <<volume, paused, currentTime, loop, audioSrc>>
fader == <<timers, due, mq, uncaught, lastWriter, lastCall, nCalls, assigned>>
registry == <<listeners, eventHandlers, lastOp, handles, nReg>>
vars == <<volume, paused, currentTime, loop, audioSrc, listeners, timers, due, mq,
          uncaught, lastWriter, lastCall, nCalls, assigned, eventHandlers, lastOp, handles, nReg>>

\* Every fade is started by a setVolume call of the user, or by set src (one
\* fade-out and one fade-in for each assignment).
MaxTimers == MaxCalls + 2 * MaxSrc

\* ------------------------------------------------------------ the easing
\* cos(x) for 0 <= x <= pi/2, x and the result in units of 1/One:
\* 1 - x^2/2 (1 - x^2/12 (1 - x^2/30 (1 - x^2/56))).
CosQ(x) ==
    LET x2 == (x * x) \div One
        t4 == One - x2 \div 56
        t3 == One - (x2 * t4) \div (30 * One)
        t2 == One - (x2 * t3) \div (12 * One)
    IN  One - (x2 * t2) \div (2 * One)

\* Math.cos((tick / ticks) * Math.PI), in units of 1/One; ticks >= 1.
Cos(tick, ticks) ==
    LET x == (PiFP * tick) \div ticks
    IN  IF 2 * tick <= ticks THEN CosQ(x) ELSE 0 - CosQ(PiFP - x)

\* (the cosine not halved)
EaseNoHalf(tick, ticks) == One \div 2 - Cos(tick, ticks)

\* 0.5 - Math.cos((tick / ticks) * Math.PI) / 2
Ease(tick, ticks) == One \div 2 - Cos(tick, ticks) \div 2

\* originalVolume + ((0.5 - Math.cos((tick / ticks) * Math.PI) / 2) * delta)
TickValue(originalVolume, delta, tick, ticks) ==
    originalVolume + (Ease(tick, ticks) * delta) \div One

\* ------------------------------------------------------------- setVolume
\* (the upper bound forgotten)
InRangeNoUpper(newVolume) == newVolume >= 0

\* newVolume < 0 || newVolume > 100 is false
InRange(newVolume) == newVolume >= 0 /\ newVolume <= 100

\* newVolume /= 100
Normalise(newVolume) == (newVolume * One) \div 100

\* (the test of delta forgotten)
ShortCircuitNoDelta(delta, fadeMs, intervalMs) == fadeMs = 0 \/ intervalMs = 0

\* !delta || !fadeMs || !intervalMs
ShortCircuit(delta, fadeMs, intervalMs) == delta = 0 \/ fadeMs = 0 \/ intervalMs = 0

\* Math.floor(fadeMs / intervalMs)
Ticks(fadeMs, intervalMs) == fadeMs \div intervalMs

\* (++tick === ticks: the fade stops one tick early)
FadeDoneEarly(tick, ticks) == tick + 1 = ticks

\* ++tick === ticks + 1
FadeDone(tick, ticks) == tick + 1 = ticks + 1

\* (let tick = 0: the first write is the factor 0)
NewTimerFromZero(originalVolume, newVolume, ticks, cont) ==
    [orig |-> originalVolume, new |-> newVolume, delta |-> newVolume - originalVolume,
     ticks |-> ticks, tick |-> 0, active |-> TRUE, resolved |-> FALSE,
     writes |-> 0, first |-> NoWrite, last |-> NoWrite, cont |-> cont]

\* let tick = 1; new Promise(resolve => { const timer = setInterval(...) })
NewTimer(originalVolume, newVolume, ticks, cont) ==
    [orig |-> originalVolume, new |-> newVolume, delta |-> newVolume - originalVolume,
     ticks |-> ticks, tick |-> 1, active |-> TRUE, resolved |-> FALSE,
     writes |-> 0, first |-> NoWrite, last |-> NoWrite, cont |-> cont]

\* (the promise of a fade resolved when the fade starts, not when it ends)
SetVolumeOnResolvedEarly(vol, tms, writer, newVolume, fadeMs, intervalMs, cont) ==
    IF ~InRange(newVolume)
    THEN [volume |-> vol, timers |-> tms, writer |-> writer, queued |-> <<>>,
          result |-> "rejected", threw |-> FALSE, writes |-> 0, timer |-> 0]
    ELSE LET target == Normalise(newVolume)
             delta == target - vol
         IN  IF ShortCircuit(delta, fadeMs, intervalMs)
             THEN [volume |-> target, timers |-> tms, writer |-> 0,
                   queued |-> IF cont = NoCont THEN <<>> ELSE <<cont>>,
                   result |-> "resolved", threw |-> FALSE, writes |-> 1, timer |-> 0]
             ELSE [volume |-> vol, writer |-> writer,
                   timers |-> Append(tms, NewTimer(vol, target,
                                                   Ticks(fadeMs, intervalMs), NoCont)),
                   queued |-> IF cont = NoCont THEN <<>> ELSE <<cont>>,
                   result |-> "resolved", threw |-> FALSE, writes |-> 0,
                   timer |-> Len(tms) + 1]

\* setVolume(newVolume, fadeMs, intervalMs) on the volume vol and the timers tms;
\* cont is the src assignment whose .then() callback waits for the returned
\* promise, or NoCont.
\* The result: the volume and timers after the call, the callbacks it queued,
\* and what the caller sees.
SetVolumeOn(vol, tms, writer, newVolume, fadeMs, intervalMs, cont) ==
    IF ~InRange(newVolume)
    THEN [volume |-> vol, timers |-> tms, writer |-> writer, queued |-> <<>>,
          result |-> "rejected", threw |-> FALSE, writes |-> 0, timer |-> 0]
    ELSE LET target == Normalise(newVolume)
             delta == target - vol
         IN  IF ShortCircuit(delta, fadeMs, intervalMs)
             THEN [volume |-> target, timers |-> tms, writer |-> 0,
                   queued |-> IF cont = NoCont THEN <<>> ELSE <<cont>>,
                   result |-> "resolved", threw |-> FALSE, writes |-> 1, timer |-> 0]
             ELSE [volume |-> vol, writer |-> writer,
                   timers |-> Append(tms, NewTimer(vol, target,
                                                   Ticks(fadeMs, intervalMs), cont)),
                   queued |-> <<>>,
                   result |-> "pending", threw |-> FALSE, writes |-> 0,
                   timer |-> Len(tms) + 1]

\* What the caller of setVolume(newVolume, fadeMs, intervalMs) gets: r.result is
\* the state of the returned promise, r.threw whether the call threw instead.
CallRecord(newVolume, fadeMs, intervalMs, r) ==
    [newVolume |-> newVolume, fadeMs |-> fadeMs, intervalMs |-> intervalMs,
     result |-> r.result, threw |-> r.threw, writes |-> r.writes, timer |-> r.timer]

NoCall == CallRecord(0, 0, 0, [result |-> "none", threw |-> FALSE, writes |-> 0,
                               timer |-> 0])

\* setInterval: the timer a call has started, if any, fires after those
\* already set.
Started(before, after) == IF Len(after) > Len(before) THEN <<Len(after)>> ELSE <<>>

\* The order of firing after timer i has fired: i is set again unless its
\* callback cleared it, a timer the callback has started comes last.
Requeue(q, i, before, after) ==
    SelectSeq(q, LAMBDA x : x # i)
        \o (IF after[i].active THEN <<i>> ELSE <<>>)
        \o Started(before, after)

\* A setVolume that also pauses the element when it is asked for volume 0.
SetVolumePausesAtZero(newVolume, fadeMs, intervalMs) ==
    /\ nCalls < MaxCalls
    /\ LET r == SetVolumeOn(volume, timers, lastWriter, newVolume, fadeMs, intervalMs,
                            NoCont)
       IN  /\ volume' = r.volume
           /\ timers' = r.timers
           /\ due' = due \o Started(timers, r.timers)
           /\ lastWriter' = r.writer
           /\ mq' = mq \o r.queued
           /\ lastCall' = CallRecord(newVolume, fadeMs, intervalMs, r)
    /\ nCalls' = nCalls + 1
    /\ paused' = (paused \/ newVolume = 0)
    /\ UNCHANGED <<currentTime, loop, audioSrc, uncaught, assigned>>
    /\ UNCHANGED registry

\* The user calls setVolume(newVolume, fadeMs, intervalMs).
SetVolume(newVolume, fadeMs, intervalMs) ==
    /\ nCalls < MaxCalls
    /\ LET r == SetVolumeOn(volume, timers, lastWriter, newVolume, fadeMs, intervalMs,
                            NoCont)
       IN  /\ volume' = r.volume
           /\ timers' = r.timers
           /\ due' = due \o Started(timers, r.timers)
           /\ lastWriter' = r.writer
           /\ mq' = mq \o r.queued
           /\ lastCall' = CallRecord(newVolume, fadeMs, intervalMs, r)
    /\ nCalls' = nCalls + 1
    /\ UNCHANGED <<paused, currentTime, loop, audioSrc, uncaught, assigned>>
    /\ UNCHANGED registry

\* A callback that swaps in the url of the first assignment, whichever
\* assignment it belongs to.
ThenSrcFirstUrl(s, a) ==
    LET isPlaying == ~s.paused
        r == SetVolumeOn(s.volume, s.timers, s.writer, 100, DefaultFadeMs,
                         DefaultIntervalMs, NoCont)
    IN  [volume |-> r.volume, writer |-> r.writer, paused |-> ~isPlaying,
         currentTime |-> 0, audioSrc |-> s.assigned[1].url, timers |-> r.timers,
         mq |-> s.mq \o r.queued,
         assigned |-> [s.assigned EXCEPT ![a].swapped = TRUE]]

\* A callback that resumes by the paused flag of the time src was assigned.
ThenSrcSampledAtSet(s, a) ==
    LET isPlaying == ~s.assigned[a].pausedAtSet
        r == SetVolumeOn(s.volume, s.timers, s.writer, 100, DefaultFadeMs,
                         DefaultIntervalMs, NoCont)
    IN  [volume |-> r.volume, writer |-> r.writer, paused |-> ~isPlaying,
         currentTime |-> 0, audioSrc |-> s.assigned[a].url, timers |-> r.timers,
         mq |-> s.mq \o r.queued,
         assigned |-> [s.assigned EXCEPT ![a].swapped = TRUE]]

\* The .then() callback of src assignment a, run on the state s = [volume,
\* writer, paused, currentTime, audioSrc, timers, mq, assigned]: sample
\* isPlaying, swap the source (the element's load algorithm pauses it and
\* rewinds), resume, start the fade-in.
ThenSrc(s, a) ==
    LET isPlaying == ~s.paused
        r == SetVolumeOn(s.volume, s.timers, s.writer, 100, DefaultFadeMs,
                         DefaultIntervalMs, NoCont)
    IN  [volume |-> r.volume, writer |-> r.writer, paused |-> ~isPlaying,
         currentTime |-> 0, audioSrc |-> s.assigned[a].url, timers |-> r.timers,
         mq |-> s.mq \o r.queued,
         assigned |-> [s.assigned EXCEPT ![a].swapped = TRUE]]

\* One firing of the setInterval callback of fade i.
Tick(i) ==
    /\ i \in DOMAIN timers
    /\ timers[i].active
    /\ due # <<>> /\ i = Head(due)
    /\ mq = <<>>
    /\ LET t == timers[i] IN
       IF t.ticks = 0
       THEN \* tick / ticks is Infinity, its cosine NaN: the assignment of NaN to
            \* volume throws a TypeError, ++tick is not reached, the interval
            \* stays set.
            /\ uncaught' = (uncaught + 1) % (MaxErrors + 1)
            /\ due' = Requeue(due, i, timers, timers)
            /\ UNCHANGED <<volume, paused, currentTime, loop, audioSrc, timers, mq,
                           lastWriter, assigned>>
       ELSE LET w == TickValue(t.orig, t.delta, t.tick, t.ticks)
                done == FadeDone(t.tick, t.ticks)
                t2 == [t EXCEPT !.tick = t.tick + 1, !.writes = t.writes + 1,
                                !.first = IF t.writes = 0 THEN w ELSE t.first,
                                !.last = w, !.active = ~done, !.resolved = done]
                s1 == [volume |-> w, writer |-> i, paused |-> paused, currentTime |-> currentTime,
                       audioSrc |-> audioSrc, timers |-> [timers EXCEPT ![i] = t2],
                       mq |-> mq, assigned |-> assigned]
                s2 == IF done /\ t.cont # NoCont THEN ThenSrc(s1, t.cont) ELSE s1
            IN  /\ volume' = s2.volume
                /\ lastWriter' = s2.writer
                /\ paused' = s2.paused
                /\ currentTime' = s2.currentTime
                /\ audioSrc' = s2.audioSrc
                /\ timers' = s2.timers
                /\ due' = Requeue(due, i, timers, s2.timers)
                /\ mq' = s2.mq
                /\ assigned' = s2.assigned
                /\ UNCHANGED <<loop, uncaught>>
    /\ UNCHANGED <<lastCall, nCalls>>
    /\ UNCHANGED registry

Init ==
    /\ volume = One
    /\ paused = TRUE
    /\ currentTime = 0
    /\ loop = FALSE
    /\ audioSrc \in {NoUrl} \cup Urls
    /\ listeners = [e \in Events |-> {}]
    /\ timers = <<>>
    /\ due = <<>>
    /\ mq = <<>>
    /\ uncaught = 0
    /\ lastWriter = 0
    /\ lastCall = NoCall
    /\ nCalls = 0
    /\ assigned = <<>>
    /\ eventHandlers = [e \in Events |-> <<>>]
    /\ lastOp = [name |-> "none", event |-> "ended", handler |-> Null,
                 index |-> NoIndex, ret |-> NoIndex]
    /\ handles = [e \in Events |-> <<>>]
    /\ nReg = 0

Next ==
    \/ \E v \in Percents, f \in FadeMsSet, m \in IntervalMsSet : SetVolume(v, f, m)
    \/ \E i \in 1..MaxTimers : Tick(i)

Spec == Init /\ [][Next]_vars

\* ---------------------------------------------------------------- set src
\* audio.src = url
SetSrc(url) ==
    /\ Len(assigned) < MaxSrc
    /\ LET r == SetVolumeOn(volume, timers, lastWriter, 0, DefaultFadeMs,
                            DefaultIntervalMs, Len(assigned) + 1)
       IN  /\ volume' = r.volume
           /\ timers' = r.timers
           /\ due' = due \o Started(timers, r.timers)
           /\ lastWriter' = r.writer
           /\ mq' = mq \o r.queued
           /\ assigned' = Append(assigned, [url |-> url, timer |-> r.timer,
                                            pausedAtSet |-> paused,
                                            swapped |-> FALSE])
    /\ UNCHANGED <<paused, currentTime, loop, audioSrc, uncaught, lastCall, nCalls>>
    /\ UNCHANGED registry

\* The .then() callback of a fade-out that took the short-circuit path: it runs
\* once the code that assigned src has returned.
RunThen ==
    /\ mq # <<>>
    /\ LET s == ThenSrc([volume |-> volume, writer |-> lastWriter, paused |-> paused,
                         currentTime |-> currentTime, audioSrc |-> audioSrc,
                         timers |-> timers, mq |-> Tail(mq),
                         assigned |-> assigned], Head(mq))
       IN  /\ volume' = s.volume
           /\ lastWriter' = s.writer
           /\ paused' = s.paused
           /\ currentTime' = s.currentTime
           /\ audioSrc' = s.audioSrc
           /\ timers' = s.timers
           /\ due' = due \o Started(timers, s.timers)
           /\ mq' = s.mq
           /\ assigned' = s.assigned
    /\ UNCHANGED <<loop, uncaught, lastCall, nCalls>>
    /\ UNCHANGED registry

\* play = () => this._audio.play()
Play ==
    /\ paused' = FALSE
    /\ UNCHANGED <<volume, currentTime, loop, audioSrc>>
    /\ UNCHANGED fader
    /\ UNCHANGED registry

\* pause = () => this._audio.pause()
Pause ==
    /\ paused' = TRUE
    /\ UNCHANGED <<volume, currentTime, loop, audioSrc>>
    /\ UNCHANGED fader
    /\ UNCHANGED registry

\* stop()
Stop ==
    /\ paused' = TRUE
    /\ currentTime' = 0
    /\ UNCHANGED <<volume, loop, audioSrc>>
    /\ UNCHANGED fader
    /\ UNCHANGED registry

\* toggle()
Toggle ==
    /\ IF paused
       THEN paused' = FALSE /\ currentTime' = currentTime
       ELSE paused' = TRUE /\ currentTime' = 0
    /\ UNCHANGED <<volume, loop, audioSrc>>
    /\ UNCHANGED fader
    /\ UNCHANGED registry

\* set loop(willLoop)
SetLoop(willLoop) ==
    /\ loop' = willLoop
    /\ UNCHANGED <<volume, paused, currentTime, audioSrc>>
    /\ UNCHANGED fader
    /\ UNCHANGED registry

\* The element plays on: its position leaves the start.
Playback ==
    /\ ~paused
    /\ currentTime' = 1
    /\ UNCHANGED <<volume, paused, loop, audioSrc>>
    /\ UNCHANGED fader
    /\ UNCHANGED registry

\* setVolume calls (rejected, instant, with a fade of no tick, with a fade of
\* three ticks) amid the playback controls.
PlayNext ==
    \/ \E v \in {0, 50, 101}, f \in {0, 5, 39} : SetVolume(v, f, DefaultIntervalMs)
    \/ \E i \in 1..MaxTimers : Tick(i)
    \/ Play
    \/ Pause
    \/ Stop
    \/ Toggle
    \/ \E b \in BOOLEAN : SetLoop(b)
    \/ Playback

PlaySpec == Init /\ [][PlayNext]_vars

\* One assignment to src, amid play, pause and instant volume changes.
SrcNext ==
    \/ \E v \in {0, 100} : SetVolume(v, 0, DefaultIntervalMs)
    \/ \E url \in Urls : assigned = <<>> /\ SetSrc(url)
    \/ RunThen
    \/ \E i \in 1..MaxTimers : Tick(i)
    \/ Play
    \/ Pause

SrcSpec == Init /\ [][SrcNext]_vars

\* One assignment to src and one valid setVolume call of the user (instant, or
\* a fade of three ticks), each at any point of the other's fades.
MixNext ==
    \/ \E v \in {0, 50, 100}, f \in {0, 39} :
          nCalls = 0 /\ SetVolume(v, f, DefaultIntervalMs)
    \/ \E url \in Urls : assigned = <<>> /\ SetSrc(url)
    \/ RunThen
    \/ \E i \in 1..MaxTimers : Tick(i)

MixSpec == Init /\ [][MixNext]_vars

\* new NebulaAudio(); audio.src = "a.mp3" and later, at any point,
\* audio.src = "b.mp3"; no other call.
TwoSrcNext ==
    \/ assigned = <<>> /\ audioSrc = NoUrl /\ SetSrc("a.mp3")
    \/ Len(assigned) = 1 /\ SetSrc("b.mp3")
    \/ RunThen
    \/ \E i \in 1..MaxTimers : Tick(i)

TwoSrcSpec == Init /\ [][TwoSrcNext]_vars

\* Every timer that is set fires in the end, every waiting callback runs.
FairTwoSrcSpec ==
    /\ Init /\ [][TwoSrcNext]_vars
    /\ WF_vars(RunThen)
    /\ WF_vars(\E i \in 1..MaxTimers : Tick(i))

\* ------------------------------------------------------------ a scenario
\* new NebulaAudio(); setVolume(0, 1500, 13); setVolume(100, 1500, 13) at once,
\* before any timer fires; then the timers run.
ScenarioNext ==
    \/ nCalls = 0 /\ SetVolume(0, DefaultFadeMs, DefaultIntervalMs)
    \/ nCalls = 1 /\ SetVolume(100, DefaultFadeMs, DefaultIntervalMs)
    \/ nCalls = 2 /\ \E i \in 1..MaxTimers : Tick(i)

ScenarioSpec == Init /\ [][ScenarioNext]_vars

\* --------------------------------------------------------------- on, off
\* JavaScript arrays count from 0, sequences from 1: slot k is seq[k + 1].
\* (return eventHandlers.length)
OnReturnLength(length) == length

\* return eventHandlers.length - 1
OnReturn(length) == length - 1

\* EventTarget.addEventListener(event, handler): the listener list of an event
\* holds a callback at most once.
AddEventListener(ls, handler) == ls \cup {handler}

\* EventTarget.removeEventListener(event, handler); null and undefined match
\* no listener.
RemoveEventListener(ls, handler) == ls \ {handler}

\* eventHandlers[k], which is undefined (no slot) from the length on
Slot(seq, k) == IF k < Len(seq) THEN seq[k + 1] ELSE Hole

\* (eventHandlers.splice(k, 1))
Splice(seq, k) ==
    IF k < Len(seq)
    THEN [i \in 1..(Len(seq) - 1) |-> IF i <= k THEN seq[i] ELSE seq[i + 1]]
    ELSE seq

\* eventHandlers[k] = null: an index from the length on grows the array, and
\* the indices in between are holes.
SetNull(seq, k) ==
    [i \in 1..(IF k < Len(seq) THEN Len(seq) ELSE k + 1) |->
        IF i = k + 1 THEN Null ELSE IF i <= Len(seq) THEN seq[i] ELSE Hole]

\* on(event, handler)
On(event, handler) ==
    /\ nReg < MaxRegOps
    /\ LET pushed == Append(eventHandlers[event], handler)
       IN  /\ listeners' = [listeners EXCEPT
                   ![event] = AddEventListener(@, pushed[Len(pushed)])]
           /\ eventHandlers' = [eventHandlers EXCEPT ![event] = pushed]
           /\ lastOp' = [name |-> "on", event |-> event, handler |-> handler,
                         index |-> NoIndex, ret |-> OnReturn(Len(pushed))]
           /\ handles' = [handles EXCEPT ![event] = Append(@, OnReturn(Len(pushed)))]
    /\ nReg' = nReg + 1
    /\ UNCHANGED audio
    /\ UNCHANGED fader

\* off(event, handlerIndex), handlerIndex a number
Off(event, handlerIndex) ==
    /\ nReg < MaxRegOps
    /\ IF eventHandlers[event] = <<>>
       THEN UNCHANGED <<listeners, eventHandlers>>
       ELSE /\ listeners' = [listeners EXCEPT
                    ![event] = RemoveEventListener(@, Slot(eventHandlers[event],
                                                          handlerIndex))]
            /\ eventHandlers' = [eventHandlers EXCEPT
                    ![event] = SetNull(@, handlerIndex)]
    /\ lastOp' = [name |-> "off", event |-> event, handler |-> Null,
                  index |-> handlerIndex, ret |-> NoIndex]
    /\ nReg' = nReg + 1
    /\ UNCHANGED handles
    /\ UNCHANGED audio
    /\ UNCHANGED fader

\* off(event) that nulls the slots and forgets removeEventListener.
OffAllKeepsListeners(event) ==
    /\ nReg < MaxRegOps
    /\ eventHandlers' = [eventHandlers EXCEPT
            ![event] = [i \in DOMAIN @ |-> IF @[i] = Hole THEN Hole ELSE Null]]
    /\ lastOp' = [name |-> "offAll", event |-> event, handler |-> Null,
                  index |-> NoIndex, ret |-> NoIndex]
    /\ nReg' = nReg + 1
    /\ UNCHANGED listeners
    /\ UNCHANGED handles
    /\ UNCHANGED audio
    /\ UNCHANGED fader

\* off(event): forEach visits the slots that exist (never the holes), removes
\* the listener of each and sets each to null.
OffAll(event) ==
    /\ nReg < MaxRegOps
    /\ listeners' = [listeners EXCEPT
            ![event] = @ \ {eventHandlers[event][i] : i \in DOMAIN eventHandlers[event]}]
    /\ eventHandlers' = [eventHandlers EXCEPT
            ![event] = [i \in DOMAIN @ |-> IF @[i] = Hole THEN Hole ELSE Null]]
    /\ lastOp' = [name |-> "offAll", event |-> event, handler |-> Null,
                  index |-> NoIndex, ret |-> NoIndex]
    /\ nReg' = nReg + 1
    /\ UNCHANGED handles
    /\ UNCHANGED audio
    /\ UNCHANGED fader

RegNext ==
    \/ \E e \in Events, h \in Handlers : On(e, h)
    \/ \E e \in Events, k \in 0..MaxHandle : Off(e, k)
    \/ \E e \in Events : OffAll(e)

RegSpec == Init /\ [][RegNext]_vars

FairSpec == Init /\ [][Next]_vars /\ \A i \in 1..MaxTimers : WF_vars(Tick(i))

\* ------------------------------------------------------------------ claims
\* True of a step that is a setVolume call of the user.
IsCall == nCalls' = nCalls + 1

Between(x, a, b) == (a < x /\ x < b) \/ (b < x /\ x < a)

\* C1: a fade of N >= 1 ticks writes the volume once per tick, tick 1 first, and
\* never more than N times; it is resolved, and its timer cleared, exactly when
\* it has made its N-th write, and that write is the target volume; this holds
\* whatever other fades are in flight.
FadeWritesExactlyN ==
    \A i \in DOMAIN timers :
        LET t == timers[i] IN
        t.ticks >= 1 =>
            /\ t.writes = t.tick - 1
            /\ t.writes <= t.ticks
            /\ t.resolved <=> (t.writes = t.ticks)
            /\ t.active <=> ~t.resolved
            /\ t.resolved => t.last = t.new

\* C1 witness: a fade of 3 ticks has completed while another fade, started
\* before it completed, has written the volume too.
FadeCompletedAmongOthers ==
    \E i, j \in DOMAIN timers :
        /\ i # j
        /\ timers[i].ticks = 3 /\ timers[i].resolved
        /\ timers[j].ticks >= 1 /\ timers[j].writes >= 1 /\ timers[j].active

\* C2: a fade of 0 ticks (0 < fadeMs < intervalMs) is eventually resolved and
\* its timer eventually cleared.
ZeroTickFadeResolves ==
    \A i \in 1..MaxTimers :
        []((i \in DOMAIN timers /\ timers[i].ticks = 0)
              => <>(i \in DOMAIN timers /\ timers[i].resolved /\ ~timers[i].active))

\* C3: a setVolume call with newVolume < 0 or newVolume > 100 returns a rejected
\* promise without throwing, leaves the volume as it was and starts no timer.
RejectsOutOfRange ==
    [][(IsCall /\ (lastCall'.newVolume < 0 \/ lastCall'.newVolume > 100))
          => /\ lastCall'.result = "rejected"
             /\ ~lastCall'.threw
             /\ lastCall'.writes = 0
             /\ volume' = volume
             /\ timers' = timers
             /\ mq' = mq]_vars

\* C3 witness: setVolume(101, ...) was rejected while a fade was in flight.
RejectedDuringFade ==
    /\ lastCall.result = "rejected"
    /\ lastCall.newVolume = 101
    /\ \E i \in DOMAIN timers : timers[i].active /\ timers[i].writes >= 1

\* C4: a setVolume call with newVolume in [0,100], and newVolume/100 equal to the
\* current volume or fadeMs = 0 or intervalMs = 0, writes the volume once, to
\* newVolume/100, within the call, starts no timer and returns a resolved promise.
ShortCircuitWritesOnce ==
    [][(/\ IsCall
        /\ lastCall'.newVolume >= 0 /\ lastCall'.newVolume <= 100
        /\ \/ lastCall'.newVolume * One = 100 * volume
           \/ lastCall'.fadeMs = 0
           \/ lastCall'.intervalMs = 0)
          => /\ 100 * volume' = lastCall'.newVolume * One
             /\ lastCall'.writes = 1
             /\ lastCall'.result = "resolved"
             /\ ~lastCall'.threw
             /\ timers' = timers]_vars

\* C4 witness: after a fade to 0 has ended, a call with nonzero fadeMs and
\* intervalMs asked for the volume 0 again and resolved at once.
ShortCircuitOnEqualVolume ==
    /\ lastCall.result = "resolved" /\ lastCall.writes = 1
    /\ lastCall.fadeMs # 0 /\ lastCall.intervalMs # 0
    /\ lastCall.newVolume = 0 /\ volume = 0
    /\ \E i \in DOMAIN timers : timers[i].resolved /\ timers[i].new = 0

\* C5 as claimed: the first write of every fade of N >= 1 ticks is strictly
\* between the start volume and the target volume.
FirstWriteStrictlyBetween ==
    \A i \in DOMAIN timers :
        LET t == timers[i] IN
        (t.ticks >= 1 /\ t.writes >= 1 /\ t.orig # t.new)
            => Between(t.first, t.orig, t.new)

\* C5 amended: the first write of a fade of N >= 2 ticks is strictly between the
\* start volume and the target volume; the first write of a fade of 1 tick is
\* the target volume.
FirstWriteBetweenFromTwoTicks ==
    \A i \in DOMAIN timers :
        LET t == timers[i] IN
        (t.writes >= 1 /\ t.orig # t.new)
            => /\ t.ticks >= 2 => Between(t.first, t.orig, t.new)
               /\ t.ticks = 1 => t.first = t.new

\* C5 witness: a fade of 3 ticks has made its first write.
FirstWriteOfThreeTicks ==
    \E i \in DOMAIN timers :
        timers[i].ticks = 3 /\ timers[i].writes = 1 /\ timers[i].orig # timers[i].new

\* True of a step in which the .then() callback of src assignment a runs.
Swaps(a) == ~assigned[a].swapped /\ assigned'[a].swapped

\* True if the fade-out that src assignment a started has ended by the end of
\* the step: it took the short-circuit path, or its timer has made the last
\* of its 115 writes, the write of 0, and is cleared.
FadeOutEnded(a) ==
    \/ assigned[a].timer = 0
    \/ LET t == timers'[assigned[a].timer] IN
         /\ t.new = 0 /\ t.ticks = DefaultFadeMs \div DefaultIntervalMs
         /\ t.resolved /\ ~t.active /\ t.writes = t.ticks /\ t.last = 0

\* True of a step that starts a fade to volume 100 over 1500 ms.
StartsFadeIn ==
    /\ Len(timers') = Len(timers) + 1
    /\ LET t == timers'[Len(timers')] IN
         /\ t.new = One /\ t.orig # One
         /\ t.ticks = DefaultFadeMs \div DefaultIntervalMs
         /\ t.tick = 1 /\ t.writes = 0 /\ t.active /\ ~t.resolved

\* C6 as claimed: after setVolume(0,1500,13) and setVolume(100,1500,13) on a new
\* player, each call has started a fade, both fades are in flight before the
\* first tick, and once both have ended the volume is the last write of the
\* fade that ended last.
ScenarioBothFadesInFlight ==
    nCalls = 2 =>
        /\ Len(timers) = 2
        /\ (\A i \in DOMAIN timers : timers[i].writes = 0)
              => \A i \in DOMAIN timers : timers[i].active
        /\ (\A i \in DOMAIN timers : timers[i].resolved)
              => lastWriter \in DOMAIN timers /\ volume = timers[lastWriter].last

\* C6 amended: the first call starts a fade of 115 ticks from 1.0 to 0; the
\* second call finds the volume still 1.0, so it takes the short-circuit path
\* (one write of 1.0, a resolved promise, no timer); one fade is in flight, and
\* when it has ended the volume is 0.
ScenarioSecondCallShortCircuits ==
    nCalls = 2 =>
        /\ Len(timers) = 1
        /\ timers[1].orig = One /\ timers[1].new = 0
        /\ timers[1].ticks = DefaultFadeMs \div DefaultIntervalMs
        /\ lastCall.result = "resolved" /\ lastCall.writes = 1 /\ lastCall.timer = 0
        /\ timers[1].writes = 0 => (volume = One /\ timers[1].active)
        /\ timers[1].resolved => (volume = 0 /\ lastWriter = 1)

\* C6 witness: both calls were made and the only fade has ended.
ScenarioFadeEnded ==
    nCalls = 2 /\ Len(timers) = 1 /\ timers[1].resolved /\ timers[1].writes = 115

\* C7 as claimed: the source changes only when the callback of a src assignment
\* runs; that callback runs only when the fade-out the assignment started has
\* ended, sets the source to the assigned url, and starts a fade to volume 100
\* over 1500 ms.
SwapThenFadeIn ==
    [][/\ audioSrc' # audioSrc => \E a \in DOMAIN assigned : Swaps(a)
       /\ \A a \in DOMAIN assigned :
             Swaps(a) => /\ FadeOutEnded(a)
                         /\ audioSrc' = assigned[a].url
                         /\ StartsFadeIn]_vars

\* C7 amended: as claimed, but the callback calls setVolume(100, 1500), which
\* starts a fade of 115 ticks to 1.0 unless the volume is 1.0 already; then it
\* starts no fade and leaves the volume at 1.0.
SwapThenSetVolume100 ==
    [][/\ audioSrc' # audioSrc => \E a \in DOMAIN assigned : Swaps(a)
       /\ \A a \in DOMAIN assigned :
             Swaps(a) => /\ FadeOutEnded(a)
                         /\ audioSrc' = assigned[a].url
                         /\ \/ StartsFadeIn
                            \/ /\ volume = One /\ volume' = One
                               /\ Len(timers') = Len(timers)]_vars

\* C7 witness: the source was swapped by the last tick of a fade-out of 115
\* ticks, and the fade-in has started.
SwappedAfterFadeOut ==
    \E a \in DOMAIN assigned, j \in DOMAIN timers :
        /\ assigned[a].swapped /\ assigned[a].timer # 0
        /\ timers[assigned[a].timer].writes = 115
        /\ audioSrc = assigned[a].url
        /\ j > assigned[a].timer /\ timers[j].new = One /\ timers[j].writes >= 1

RECURSIVE SumOnCalls(_)
\* The number of on() calls made so far for the events of S.
SumOnCalls(S) ==
    IF S = {} THEN 0
    ELSE LET e == CHOOSE x \in S : TRUE
         IN  Len(handles[e]) + SumOnCalls(S \ {e})

\* C8: on(e, h) returns the length e's sequence had before the call, and appends
\* h to it; as long as no off call was made, the n-th on(e, .) returns n - 1,
\* whatever on calls were made for other events.
OnReturnsLengthBefore ==
    [][(nReg' = nReg + 1 /\ lastOp'.name = "on")
          => LET e == lastOp'.event IN
             /\ lastOp'.ret = Len(eventHandlers[e])
             /\ eventHandlers'[e] = Append(eventHandlers[e], lastOp'.handler)
             /\ (SumOnCalls(Events) = nReg) => lastOp'.ret = Len(handles[e])]_vars

\* C8 witness: the second on('ended', .) returned 1 after on calls for 'play'
\* and no off call.
SecondOnReturnedOne ==
    /\ lastOp.name = "on" /\ lastOp.event = "ended" /\ lastOp.ret = 1
    /\ handles["ended"] = <<0, 1>> /\ Len(handles["play"]) >= 1
    /\ nReg = Len(handles["ended"]) + Len(handles["play"])

\* C9: the handles that on returns for one event are strictly increasing,
\* whatever off calls are made in between.
HandlesNeverReused ==
    \A e \in Events :
        \A i, j \in DOMAIN handles[e] : i < j => handles[e][i] < handles[e][j]

\* C9 witness: on('ended', .) returned 0, off('ended', 0) tombstoned the slot,
\* and on('ended', .) has returned another handle.
OnAfterOff ==
    /\ lastOp.name = "on" /\ lastOp.event = "ended"
    /\ Len(handles["ended"]) = 2
    /\ eventHandlers["ended"][1] = Null

\* C10: off(e, k) with slot k live makes slot k a tombstone, changes no other
\* slot of any event, and removes from the element no handler that another
\* live slot of e holds (nor any listener of another event).
OffRemovesOnlyThatEntry ==
    [][(/\ nReg' = nReg + 1 /\ lastOp'.name = "off"
        /\ lastOp'.index < Len(eventHandlers[lastOp'.event])
        /\ eventHandlers[lastOp'.event][lastOp'.index + 1] \in Handlers)
          => LET e == lastOp'.event
                 k == lastOp'.index
             IN  /\ eventHandlers' = [eventHandlers EXCEPT ![e][k + 1] = Null]
                 /\ \A x \in Events \ {e} : listeners'[x] = listeners[x]
                 /\ \A i \in DOMAIN eventHandlers[e] :
                       (/\ i # k + 1
                        /\ eventHandlers[e][i] \in Handlers
                        /\ eventHandlers[e][i] \in listeners[e])
                          => eventHandlers[e][i] \in listeners'[e]]_vars

\* C11: off(e, k) with slot k already null, or k at or past the length of e's
\* array, or e's array empty, changes neither e's array (contents and length)
\* nor the listeners of the element.
OffOfAbsentIsNoOp ==
    [][(/\ nReg' = nReg + 1 /\ lastOp'.name = "off"
        /\ \/ eventHandlers[lastOp'.event] = <<>>
           \/ lastOp'.index >= Len(eventHandlers[lastOp'.event])
           \/ Slot(eventHandlers[lastOp'.event], lastOp'.index) = Null)
          => /\ eventHandlers' = eventHandlers
             /\ listeners' = listeners]_vars

\* True of a step that is the call off(e) without an index.
IsOffAll == nReg' = nReg + 1 /\ lastOp'.name = "offAll"

\* C12: off(e) leaves no slot of e holding a handler (every slot that held one
\* is null), leaves no listener of e on the element, and keeps the length of
\* e's array and everything of the other events; a call off(e, 0) that comes
\* next changes neither the arrays nor the listeners.
OffAllTombstonesEverySlot ==
    [][/\ IsOffAll
          => LET e == lastOp'.event IN
             /\ Len(eventHandlers'[e]) = Len(eventHandlers[e])
             /\ \A i \in DOMAIN eventHandlers[e] :
                   /\ eventHandlers'[e][i] \notin Handlers
                   /\ eventHandlers[e][i] \in Handlers
                         => eventHandlers'[e][i] = Null
             /\ listeners'[e] = {}
             /\ \A x \in Events \ {e} :
                   /\ eventHandlers'[x] = eventHandlers[x]
                   /\ listeners'[x] = listeners[x]
       /\ (/\ nReg' = nReg + 1 /\ lastOp'.name = "off" /\ lastOp'.index = 0
           /\ lastOp.name = "offAll" /\ lastOp.event = lastOp'.event)
          => /\ eventHandlers' = eventHandlers
             /\ listeners' = listeners]_vars

\* off("ended") on two live slots was followed by off("ended", 0).
OffZeroAfterOffAll ==
    /\ lastOp.name = "off" /\ lastOp.event = "ended" /\ lastOp.index = 0
    /\ Len(eventHandlers["ended"]) = 2
    /\ \A i \in 1..2 : eventHandlers["ended"][i] = Null
    /\ listeners["ended"] = {}
    /\ nReg = 4

\* True of a step that is one firing of the timer of a fade that setVolume
\* started without a .then() callback chained by set src.
IsPlainTick ==
    \E i \in DOMAIN timers :
        /\ timers[i].cont = NoCont
        /\ \/ timers'[i].tick = timers[i].tick + 1
           \/ uncaught' # uncaught

\* C13: a setVolume call (rejected, instant or starting a fade) and every
\* firing of a fade's timer, the last one included, leave the element's
\* paused flag, position, loop flag and source as they were, and its listeners
\* too.
SetVolumeWritesOnlyVolume ==
    [][(IsCall \/ IsPlainTick)
          => /\ UNCHANGED <<paused, currentTime, loop, audioSrc>>
             /\ UNCHANGED listeners]_vars

\* A fade to 0 is two writes into its three while the element plays, past its
\* start, with loop on.
FadeToZeroWhilePlaying ==
    /\ ~paused /\ currentTime = 1 /\ loop
    /\ \E i \in DOMAIN timers :
          /\ timers[i].active /\ timers[i].ticks = 3 /\ timers[i].writes = 2
          /\ timers[i].new = 0 /\ lastWriter = i

\* C14: when every fade that was started has at least one tick and has made
\* its last write, the volume is the target of the setVolume call made last
\* (calls that were rejected aside).
LastTargetWins ==
    (/\ nCalls >= 1
     /\ lastCall.result # "rejected"
     /\ \A i \in DOMAIN timers : timers[i].ticks >= 1 /\ timers[i].resolved)
        => volume = Normalise(lastCall.newVolume)

\* C15: playback is resumed after the swap exactly if the player was playing at
\* the moment the fade-out of the assignment completed: the moment of its last
\* tick, or, for a fade-out that took the short-circuit path, the moment src was
\* assigned.
ResumedIffPlayingAtFadeOutEnd ==
    [][\A a \in DOMAIN assigned :
          Swaps(a) =>
              LET playingAtEnd == IF assigned[a].timer = 0
                                  THEN ~assigned[a].pausedAtSet
                                  ELSE ~paused
              IN  paused' = ~playingAtEnd]_vars

\* C15 (amended): playback is resumed after the swap exactly if the player is
\* playing when the .then() callback of the fade-out runs, whatever it was
\* doing when src was assigned.
ResumedIffPlayingAtCallback ==
    [][\A a \in DOMAIN assigned : Swaps(a) => paused' = paused]_vars

\* A player that was playing when src was assigned is paused after the swap
\* that followed the last tick of the fade-out, the fade-in not yet begun.
PausedDuringFadeOutNotResumed ==
    /\ assigned # <<>>
    /\ assigned[1].swapped /\ assigned[1].timer # 0
    /\ ~assigned[1].pausedAtSet
    /\ paused
    /\ lastWriter = assigned[1].timer
    /\ audioSrc = assigned[1].url

\* C16: with valid setVolume calls and src assignments interleaved in any way,
\* the volume is within [0, 1] in every state, and the latest write of every
\* fade lies between the volume the fade started from and its target.
VolumeStaysInUnitRange ==
    /\ 0 <= volume /\ volume <= One
    /\ \A i \in DOMAIN timers :
          LET t == timers[i] IN
          t.writes >= 1 =>
              \/ t.orig <= t.last /\ t.last <= t.new
              \/ t.new <= t.last /\ t.last <= t.orig

\* The fade-out of a src assignment and a fade of the user are both in flight,
\* the user's fade, upwards from a volume within (0, 1), wrote last.
UserFadeAmidFadeOut ==
    /\ assigned # <<>> /\ ~assigned[1].swapped /\ assigned[1].timer # 0
    /\ timers[assigned[1].timer].active /\ timers[assigned[1].timer].writes >= 1
    /\ \E i \in DOMAIN timers :
          /\ timers[i].active /\ timers[i].cont = NoCont /\ timers[i].writes = 2
          /\ 0 < timers[i].orig /\ timers[i].orig < timers[i].new
          /\ lastWriter = i

\* No timer is set, no callback waits, the source is the url assigned second
\* and the volume is 1.0.
SettledOnSecondUrl ==
    /\ mq = <<>>
    /\ \A i \in DOMAIN timers : ~timers[i].active
    /\ audioSrc = "b.mp3"
    /\ volume = One

\* C17: once src has been assigned "a.mp3" and then, at whatever point of the
\* first change, "b.mp3", with no other volume or source call, the player
\* reaches in the end, and then stays in, a state where every timer is
\* cleared, the source is "b.mp3" and the volume is 1.0.
LastAssignedSourceWins == (Len(assigned) = 2) ~> []SettledOnSecondUrl

\* Both changes are over; the second assignment was made while a fade of the
\* first was in flight (its fade-out started from a volume within (0, 1)).
SecondAssignedMidFade ==
    /\ Len(assigned) = 2
    /\ assigned[1].swapped /\ assigned[2].swapped
    /\ assigned[2].timer # 0
    /\ 0 < timers[assigned[2].timer].orig /\ timers[assigned[2].timer].orig < One
    /\ SettledOnSecondUrl

==========================================================================
